---- MODULE Spec2Model ----
(***************************************************************************)
(* Document ingestion and semantic retrieval of the Vyron System           *)
(* (app/brain_service.py): process_pdf, generate_embeddings, ingest_pdf,   *)
(* semantic_search and count_chunks over the document_chunks table.        *)
(*                                                                         *)
(* Representation.  A Python str and a list[float] are both finite         *)
(* sequences; they are written run-length encoded, as a sequence of runs   *)
(* [c |-> element, n |-> repetitions] with n > 0 and neighbouring runs of  *)
(* different elements.  "aaa\n\n" is <<Run("a",3), Run("\n",2)>> and       *)
(* [0.0] * 1536 is <<Run(0,1536)>>.  The encoding is canonical, so two     *)
(* strings (vectors) are equal exactly when their encodings are.           *)
(***************************************************************************)
EXTENDS Integers, Sequences, FiniteSets, TLC

\* ------------------------------------------------------------------ bounds
MaxPages == 2          \* pages of the largest document ingested
MaxBatchSize == 2      \* largest batch_size argument given to ingest_pdf
MaxLimit == 2          \* largest limit argument given to semantic_search
MaxTexts == 3          \* longest list given to generate_embeddings directly
MaxIntel == 3          \* competitor analyses committed
MaxIntelIngesting == 1 \* competitor analyses committed beside an ingestion
MaxWords == 12         \* words of the longest text given to split_text directly

\* ------------------------------------------------------- program constants
chunk_size == 1000     \* _splitter chunk_size
chunk_overlap == 150   \* _splitter chunk_overlap
Dim == 1536            \* length of an embedding (text-embedding-3-small)

\* ---------------------------------------------------- run-length sequences
Run(c, n) == [c |-> c, n |-> n]

RECURSIVE Size(_)
\* len(s)
Size(s) == IF s = <<>> THEN 0 ELSE s[1].n + Size(Tail(s))

RECURSIVE Expand(_)
\* the elements of s, one by one
Expand(s) ==
    IF s = <<>> THEN <<>>
    ELSE [k \in 1..s[1].n |-> s[1].c] \o Expand(Tail(s))

\* the first position after `from` where xs changes value (Len(xs)+1 if none)
RunEnd(xs, from) ==
    LET stops == {k \in (from + 1)..(Len(xs) + 1) :
                     k = Len(xs) + 1 \/ xs[k] # xs[from]}
    IN  CHOOSE k \in stops : \A m \in stops : k <= m

RECURSIVE EncodeFrom(_, _)
EncodeFrom(xs, from) ==
    IF from > Len(xs) THEN <<>>
    ELSE <<Run(xs[from], RunEnd(xs, from) - from)>>
             \o EncodeFrom(xs, RunEnd(xs, from))

\* the run-length encoding of the element sequence xs
Encode(xs) == EncodeFrom(xs, 1)

\* s + t
Concat(s, t) ==
    IF s = <<>> THEN t
    ELSE IF t = <<>> THEN s
    ELSE IF s[Len(s)].c = t[1].c
         THEN SubSeq(s, 1, Len(s) - 1)
                 \o <<Run(t[1].c, s[Len(s)].n + t[1].n)>> \o Tail(t)
         ELSE s \o t

RECURSIVE Join(_, _)
\* sep.join(parts)
Join(sep, parts) ==
    IF parts = <<>> THEN <<>>
    ELSE IF Len(parts) = 1 THEN parts[1]
    ELSE Concat(Concat(parts[1], sep), Join(sep, Tail(parts)))

Whitespace == {" ", "\n", "\t"}

\* s.strip()
Strip(s) ==
    LET keep == {k \in 1..Len(s) : s[k].c \notin Whitespace}
    IN  IF keep = {} THEN <<>>
        ELSE SubSeq(s, CHOOSE k \in keep : \A m \in keep : k <= m,
                       CHOOSE k \in keep : \A m \in keep : k >= m)

\* a string of n copies of the character ch
Rep(ch, n) == IF n = 0 THEN <<>> ELSE <<Run(ch, n)>>

\* --------------------------------------------------------- text splitter
\* _splitter: RecursiveCharacterTextSplitter(chunk_size, chunk_overlap,
\* length_function=len, separators=["\n\n", "\n", ". ", " ", ""]), with the
\* library defaults keep_separator=True and strip_whitespace=True.  The
\* splitter works on the characters of the text, one by one.

\* the separators without the last one, "": a word is never cut
separators_words == << <<"\n", "\n">>, <<"\n">>, <<".", " ">>, <<" ">> >>

separators == << <<"\n", "\n">>, <<"\n">>, <<".", " ">>, <<" ">>, <<>> >>

\* sep occurs in xs at position k
Occurs(xs, sep, k) ==
    /\ k + Len(sep) - 1 <= Len(xs)
    /\ SubSeq(xs, k, k + Len(sep) - 1) = sep

\* the first occurrence of sep in xs at or after `from`, 0 if there is none
NextMatch(xs, sep, from) ==
    LET hits == {k \in from..Len(xs) : Occurs(xs, sep, k)}
    IN  IF hits = {} THEN 0 ELSE CHOOSE k \in hits : \A m \in hits : k <= m

RECURSIVE SplitFrom(_, _, _, _)
\* re.split(f"({sep})", xs) with every separator glued to the front of the
\* piece that follows it; the current piece starts at `start`
SplitFrom(xs, sep, start, from) ==
    LET m == NextMatch(xs, sep, from)
    IN  IF m = 0 THEN <<SubSeq(xs, start, Len(xs))>>
        ELSE <<SubSeq(xs, start, m - 1)>> \o SplitFrom(xs, sep, m, m + Len(sep))

RECURSIVE SplitFromDropping(_, _, _)
\* re.split(sep, xs): the pieces between the separators
SplitFromDropping(xs, sep, start) ==
    LET m == NextMatch(xs, sep, start)
    IN  IF m = 0 THEN <<SubSeq(xs, start, Len(xs))>>
        ELSE <<SubSeq(xs, start, m - 1)>>
                \o SplitFromDropping(xs, sep, m + Len(sep))

\* _split_text_with_regex(text, separator, keep_separator=False)
SplitWithRegexDropping(xs, sep) ==
    IF sep = <<>> THEN [k \in 1..Len(xs) |-> <<xs[k]>>]
    ELSE SelectSeq(SplitFromDropping(xs, sep, 1), LAMBDA p : p # <<>>)

\* _split_text_with_regex(text, separator, keep_separator=True)
SplitWithRegex(xs, sep) ==
    IF sep = <<>> THEN [k \in 1..Len(xs) |-> <<xs[k]>>]
    ELSE SelectSeq(SplitFrom(xs, sep, 1, 1), LAMBDA p : p # <<>>)

\* text.strip() on characters
StripChars(xs) ==
    LET keep == {k \in 1..Len(xs) : xs[k] \notin Whitespace}
    IN  IF keep = {} THEN <<>>
        ELSE SubSeq(xs, CHOOSE k \in keep : \A m \in keep : k <= m,
                        CHOOSE k \in keep : \A m \in keep : k >= m)

RECURSIVE FlattenRange(_, _, _)
\* "".join(parts[lo..hi])
FlattenRange(parts, lo, hi) ==
    IF lo > hi THEN <<>>
    ELSE IF lo = hi THEN parts[lo]
    ELSE LET mid == (lo + hi) \div 2
         IN  FlattenRange(parts, lo, mid) \o FlattenRange(parts, mid + 1, hi)

Flatten(parts) == FlattenRange(parts, 1, Len(parts))

RECURSIVE Sums(_, _, _)
\* the running totals of the lengths of parts[lo..hi]
Sums(parts, lo, hi) ==
    IF lo > hi THEN <<>>
    ELSE IF lo = hi THEN <<Len(parts[lo])>>
    ELSE LET mid   == (lo + hi) \div 2
             left  == Sums(parts, lo, mid)
             right == Sums(parts, mid + 1, hi)
         IN  left \o [k \in 1..Len(right) |-> right[k] + left[Len(left)]]

\* the total length of the pieces lo..hi, from the running totals `cum`
Total(cum, lo, hi) ==
    IF lo > hi THEN 0 ELSE cum[hi] - (IF lo = 1 THEN 0 ELSE cum[lo - 1])

\* _join_docs(docs, ""): the stripped concatenation, dropped when empty
JoinDocs(current) ==
    LET text == StripChars(Flatten(current))
    IN  IF text = <<>> THEN <<>> ELSE <<text>>

\* the while loop of _merge_splits before piece k is added to the window
\* splits[lo..k-1]: pieces are dropped from the front until at most
\* chunk_overlap characters are kept and piece k fits; the first piece kept
PopFront(cum, lo, k) ==
    LET len     == Total(cum, k, k)
        more(j) == LET total == Total(cum, j, k - 1)
                   IN  \/ total > chunk_overlap
                       \/ total + len > chunk_size /\ total > 0
        stops   == {j \in lo..k : ~more(j)}
    IN  CHOOSE j \in stops : \A m \in stops : j <= m

RECURSIVE MergeFrom(_, _, _, _)
\* _merge_splits(splits, ""), from piece k on, with the window
\* splits[lo..k-1]: the pieces that fit are added to the window; at the
\* first piece that does not, the window is emitted and shortened
MergeFrom(splits, cum, k, lo) ==
    LET full == {m \in k..Len(splits) :
                    Total(cum, lo, m) > chunk_size /\ m > lo}
    IN  IF full = {} THEN JoinDocs(SubSeq(splits, lo, Len(splits)))
        ELSE LET m == CHOOSE j \in full : \A i \in full : j <= i
             IN  JoinDocs(SubSeq(splits, lo, m - 1))
                    \o MergeFrom(splits, cum, m + 1, PopFront(cum, lo, m))

MergeSplits(splits) ==
    IF splits = <<>> THEN <<>>
    ELSE MergeFrom(splits, Sums(splits, 1, Len(splits)), 1, 1)

RECURSIVE SplitChars(_, _)
RECURSIVE Walk(_, _, _)
\* the loop of _split_text over the pieces, from piece k on: the short
\* pieces before the next piece of chunk_size or more are collected and
\* merged, and that piece is split with the next separators
Walk(splits, k, rest) ==
    LET long == {m \in k..Len(splits) : Len(splits[m]) >= chunk_size}
    IN  IF long = {} THEN MergeSplits(SubSeq(splits, k, Len(splits)))
        ELSE LET m == CHOOSE j \in long : \A i \in long : j <= i
             IN  MergeSplits(SubSeq(splits, k, m - 1))
                    \o (IF rest = <<>> THEN <<splits[m]>>
                        ELSE SplitChars(splits[m], rest))
                    \o Walk(splits, m + 1, rest)

\* RecursiveCharacterTextSplitter._split_text(text, separators)
SplitChars(xs, seps) ==
    LET found == {j \in 1..Len(seps) :
                     seps[j] = <<>> \/ NextMatch(xs, seps[j], 1) # 0}
        j0    == IF found = {} THEN Len(seps)
                 ELSE CHOOSE j \in found : \A m \in found : j <= m
        sep   == seps[j0]
        rest  == IF found = {} \/ sep = <<>> THEN <<>>
                 ELSE SubSeq(seps, j0 + 1, Len(seps))
    IN  Walk(SplitWithRegex(xs, sep), 1, rest)

\* _splitter.split_text(text)
split_text(text) ==
    LET docs == SplitChars(Expand(text), separators)
    IN  [k \in 1..Len(docs) |-> Encode(docs[k])]

\* ----------------------------------------------------- values and errors
\* a Python exception: its type, the stage its message names, and the type
\* of the exception it was raised from ("" when there is none)
Exc(type, stage, cause) == [type |-> type, stage |-> stage, cause |-> cause]
NoExc == Exc("", "", "")

\* the outcome of a call: a returned value or a raised exception
Returned(v) == [raised |-> FALSE, exc |-> NoExc, value |-> v]
Raised(e) == [raised |-> TRUE, exc |-> e, value |-> <<>>]

\* ------------------------------------------------------------- documents
Letters == <<"a", "b", "c", "d", "e">>

\* a PDF source: a server path or uploaded bytes; `pages` is what
\* page.extract_text() yields for each page of the parsed document
Source(kind, exists, name, valid, pages) ==
    [kind |-> kind, exists |-> exists, name |-> name, valid |-> valid,
     pages |-> pages]

\* a path that does not exist
Missing == Source("path", FALSE, "a.pdf", TRUE, <<>>)
\* uploaded bytes that are no PDF
Corrupt == Source("bytes", TRUE, "", FALSE, <<>>)
\* a scanned document: every page yields no text or blanks only
Scanned == Source("path", TRUE, "b.pdf", TRUE, <<Rep(" ", 0), Rep(" ", 3)>>)
\* the text of a page: two words of the letter ch, 600 characters in all
Page(ch) == Concat(Concat(Rep(ch, 300), Rep(" ", 1)), Rep(ch, 299))
\* a document of n pages, page k written with Letters[k]
Pdf(kind, name, n) ==
    Source(kind, TRUE, name, TRUE, [k \in 1..n |-> Page(Letters[k])])

Args(source, filename, batch_size) ==
    [source |-> source, filename |-> filename, batch_size |-> batch_size]

\* the arguments of the ingest_pdf calls: the sources that fail, an upload
\* with and without a file name, and documents of one to MaxPages pages under
\* the same path, embedded in batches of one to MaxBatchSize chunks
IngestArgs ==
    {Args(s, "", 1) : s \in {Missing, Corrupt, Scanned}}
        \cup {Args(Pdf("bytes", "", 1), f, 1) : f \in {"", "b.pdf"}}
        \cup {Args(Pdf("path", "a.pdf", n), "", b) :
                 n \in 1..MaxPages, b \in 1..MaxBatchSize}

\* ------------------------------------------------------------ process_pdf
\* process_pdf refusing only a text of no characters (`if not full_text`)
process_pdf_unstripped(source, filename) ==
    IF source.kind = "path" /\ ~source.exists
    THEN Raised(Exc("FileNotFoundError", "", ""))
    ELSE IF ~source.valid
    THEN Raised(Exc("PdfReadError", "", ""))
    ELSE LET name       == IF filename # "" THEN filename
                           ELSE IF source.kind = "path" THEN source.name
                           ELSE "upload.pdf"
             pages_text == SelectSeq(source.pages, LAMBDA t : t # <<>>)
             full_text  == Join(Rep("\n", 2), pages_text)
         IN  IF full_text = <<>>
             THEN Raised(Exc("ValueError", "", ""))
             ELSE Returned([filename    |-> name,
                            full_text   |-> full_text,
                            chunks      |-> split_text(full_text),
                            total_pages |-> Len(source.pages)])

\* BrainService.process_pdf(source, filename)
process_pdf(source, filename) ==
    IF source.kind = "path" /\ ~source.exists
    THEN Raised(Exc("FileNotFoundError", "", ""))
    ELSE IF ~source.valid
    THEN Raised(Exc("PdfReadError", "", ""))
    ELSE LET name       == IF filename # "" THEN filename
                           ELSE IF source.kind = "path" THEN source.name
                           ELSE "upload.pdf"
             pages_text == SelectSeq(source.pages, LAMBDA t : t # <<>>)
             full_text  == Join(Rep("\n", 2), pages_text)
         IN  IF Strip(full_text) = <<>>
             THEN Raised(Exc("ValueError", "", ""))
             ELSE Returned([filename    |-> name,
                            full_text   |-> full_text,
                            chunks      |-> split_text(full_text),
                            total_pages |-> Len(source.pages)])

\* process_pdf on each of the arguments of the model, computed once
Processed == [a \in IngestArgs |-> process_pdf(a.source, a.filename)]

\* ------------------------------------------------------ embedding provider
\* The remote model text-embedding-3-small: the direction of the vector of a
\* text, here decided by the first character of the text.
Direction(text) ==
    CASE text[1].c = "a" -> <<3, 4>>
      [] text[1].c = "b" -> <<4, 3>>
      [] text[1].c = "c" -> <<5, 0>>
      [] text[1].c = "d" -> <<399, 40>>
      [] text[1].c = "e" -> <<440, 42>>
      [] OTHER           -> <<-3, 4>>

\* the vector of n components the model gives a text
ModelVector(text, n) ==
    Concat(Concat(Rep(Direction(text)[1], 1), Rep(Direction(text)[2], 1)),
           Rep(0, n - 2))

\* [0.0] * n
ZeroVector(n) == Rep(0, n)

\* What _openai.embeddings.create may answer: it raises, or it returns
\* response.data, a list of items with an index and an embedding.
Behaviours == {"ok", "reordered", "short", "baddim", "raise"}

Provider(texts, behaviour) ==
    LET item(k, n) == [index |-> k - 1, embedding |-> ModelVector(texts[k], n)]
        n == Len(texts)
    IN  CASE behaviour = "raise" -> Raised(Exc("APIError", "", ""))
          [] behaviour = "ok" -> Returned([k \in 1..n |-> item(k, Dim)])
          [] behaviour = "reordered" ->
                 Returned([k \in 1..n |-> item(n + 1 - k, Dim)])
          [] behaviour = "short" -> Returned([k \in 1..(n - 1) |-> item(k, Dim)])
          [] behaviour = "baddim" -> Returned([k \in 1..n |-> item(k, 3)])

RECURSIVE SortedByIndex(_)
\* sorted(data, key=lambda d: d.index): a stable insertion sort
SortedByIndex(data) ==
    IF data = <<>> THEN <<>>
    ELSE LET rest == SortedByIndex(SubSeq(data, 1, Len(data) - 1))
             last == data[Len(data)]
             keep == {k \in 1..Len(rest) : rest[k].index <= last.index}
             at   == Cardinality(keep)
         IN  SubSeq(rest, 1, at) \o <<last>> \o SubSeq(rest, at + 1, Len(rest))

\* the fallback of generate_embeddings: [[0.0] * 1536 for _ in texts]
ZeroVectors(texts) == [k \in 1..Len(texts) |-> ZeroVector(Dim)]

\* the response taken in the order the provider gave it
FromResponseUnsorted(data) == [k \in 1..Len(data) |-> data[k].embedding]

\* what generate_embeddings returns from a provider response
FromResponse(data) ==
    LET sorted_data == SortedByIndex(data)
    IN  [k \in 1..Len(sorted_data) |-> sorted_data[k].embedding]

\* a fallback of one zero vector, whatever the number of texts
generate_embeddings_single_zero(texts, has_client, response) ==
    IF ~has_client THEN Returned(<<ZeroVector(Dim)>>)
    ELSE IF response.raised THEN Returned(<<ZeroVector(Dim)>>)
    ELSE Returned(FromResponse(response.value))

\* no except clause: the error of the provider reaches the caller
generate_embeddings_raising(texts, has_client, response) ==
    IF ~has_client THEN Returned(ZeroVectors(texts))
    ELSE IF response.raised THEN response
    ELSE Returned(FromResponse(response.value))

\* BrainService.generate_embeddings(texts), with `client` telling whether
\* _openai is set and `response` what the provider answers
generate_embeddings(texts, client, response) ==
    IF ~client THEN Returned(ZeroVectors(texts))
    ELSE IF response.raised THEN Returned(ZeroVectors(texts))
    ELSE Returned(FromResponse(response.value))

\* ------------------------------------------------------- document_chunks
\* uuid4(): an id no other record has; here the call and the position
Uuid4(c, idx) == <<c, idx>>

Min(a, b) == IF a <= b THEN a ELSE b

\* the records ingest_pdf builds from zip(chunks, all_embeddings)
Records(c, fname, chunks, all_embeddings, total_pages) ==
    [k \in 1..Min(Len(chunks), Len(all_embeddings)) |->
        [id            |-> Uuid4(c, k - 1),
         filename      |-> fname,
         chunk_index   |-> k - 1,
         content       |-> chunks[k],
         embedding     |-> all_embeddings[k],
         metadata_json |-> [total_pages |-> total_pages,
                            total_chunks |-> Len(chunks),
                            chunk_size   |-> Size(chunks[k])]]]

\* the table accepts a row: its embedding column is vector(1536); it has no
\* constraint on (filename, chunk_index), and the ids are fresh
RowAccepted(row) == Size(row.embedding) = Dim

\* the number of rows the flush of `records` INSERTs: it stops at the first
\* row the table refuses, or after `fault` rows when the connection fails
Inserted(records, fault) ==
    LET bad == {k \in 1..Len(records) : ~RowAccepted(records[k])}
        upto == IF bad = {} THEN Len(records)
                ELSE (CHOOSE k \in bad : \A m \in bad : k <= m) - 1
    IN  Min(upto, fault)

\* a session with autocommit: every INSERT is committed at once
FlushAutocommit(table, rows) == table \o rows

\* the committed table after rows were INSERTed in an open transaction of a
\* session made with autocommit=False: unchanged
FlushRows(table, rows) == table

\* replace semantics: the rows of the same file are deleted first
CommitReplacing(table, rows) ==
    SelectSeq(table, LAMBDA old :
        \A k \in 1..Len(rows) : old.filename # rows[k].filename) \o rows

\* the committed table after COMMIT: the rows of the transaction, together
CommitRows(table, rows) == table \o rows

\* no rollback: the rows INSERTed before the failure stay
RollbackKeepsRows(table, rows) == table \o rows

\* the committed table after ROLLBACK: the rows of the transaction are gone
RollbackRows(table, rows) == table

\* -------------------------------------------------------------- ingest_pdf
\* the error of process_pdf swallowed: ingest_pdf goes on with no chunk
ProcessStageSwallowing(p) ==
    IF ~p.raised THEN p
    ELSE Returned([filename |-> "", full_text |-> <<>>, chunks |-> <<>>,
                   total_pages |-> 0])

\* no wrapping: every exception of process_pdf is re-raised as it is
ProcessStageReraising(p) == p

\* the try/except around process_pdf: FileNotFoundError is re-raised as it
\* is, every other exception is wrapped in a RuntimeError
ProcessStage(p) ==
    IF ~p.raised THEN p
    ELSE IF p.exc.type = "FileNotFoundError" THEN p
    ELSE Raised(Exc("RuntimeError", "ler/processar o PDF", p.exc.type))

\* the try/except around the batch loop
EmbedStage(r) ==
    IF ~r.raised THEN r
    ELSE Raised(Exc("RuntimeError", "gerar embeddings", r.exc.type))

\* chunks[i : i + batch_size]
Batch(chunks, i, batch_size) ==
    SubSeq(chunks, i + 1, Min(i + batch_size, Len(chunks)))

Summary(fname, total_pages, chunks) ==
    [filename |-> fname, total_pages |-> total_pages,
     total_chunks |-> Len(chunks), status |-> "success"]

Calls == {1, 2}

VARIABLES
    client,     \* whether _openai is set (OPENAI_API_KEY configured)
    store,      \* the committed rows of document_chunks, in insertion order
    ingest,     \* the frame of each ingest_pdf call
    reader,     \* the frame of the reading request (search or status)
    embed,      \* the frame of a direct generate_embeddings call
    spy,        \* the lead of each committed CompetitorIntel row
    chunker     \* the frame of a direct _splitter.split_text call

vars == <<client, store, ingest, reader, embed, spy, chunker>>

\* how generate_embeddings came to its answer: the zero fallback (no client,
\* or the provider raised), a complete response of the provider (one item for
\* each text, in any order), or a response that is not complete
Answer(has_client, behaviour) ==
    IF ~has_client \/ behaviour = "raise" THEN "fallback"
    ELSE IF behaviour \in {"ok", "reordered"} THEN "genuine"
    ELSE "malformed"

\* the frame of an ingest_pdf call.  pc: idle, embed (in the batch loop),
\* flushed (all rows INSERTed, before COMMIT), failing (the flush or the
\* COMMIT raised, before ROLLBACK), returned, raised.  `sent` (the texts of
\* each generate_embeddings call made), `answers` (the Answer of each) and
\* `inserted` (the number of rows the flush INSERTed) are history, kept for
\* the properties.
Frame(pc, args, fname, chunks, total_pages, i, all_embeddings, sent, answers, new, flushed, inserted, result) ==
    [pc |-> pc, args |-> args, fname |-> fname, chunks |-> chunks,
     total_pages |-> total_pages, i |-> i, all_embeddings |-> all_embeddings,
     sent |-> sent, answers |-> answers, new |-> new, flushed |-> flushed,
     inserted |-> inserted, result |-> result]

NoArgs == Args(Missing, "", 0)
Idle == Frame("idle", NoArgs, "", <<>>, 0, 0, <<>>, <<>>, <<>>, <<>>, <<>>, 0,
              Returned(<<>>))

\* the frame once the call has ended: its locals are gone
Ended(f, pc, result) ==
    Frame(pc, f.args, f.fname, <<>>, f.total_pages, 0, <<>>, f.sent,
          f.answers, <<>>, <<>>, f.inserted, result)

\* ingest_pdf, step 1: process_pdf and its try/except
Begin(c, a) ==
    /\ ingest[c].pc = "idle"
    /\ LET p == ProcessStage(Processed[a])
       IN  ingest' = [ingest EXCEPT ![c] =
               IF p.raised
               THEN Ended([Idle EXCEPT !.args = a], "raised", p)
               ELSE Frame("embed", a, p.value.filename, p.value.chunks,
                          p.value.total_pages, 0, <<>>, <<>>, <<>>, <<>>, <<>>,
                          0, Returned(<<>>))]
    /\ UNCHANGED <<client, store, reader, embed, spy, chunker>>

\* ingest_pdf, step 2: one turn of the batch loop
EmbedBatch(c, behaviour) ==
    LET f     == ingest[c]
        batch == Batch(f.chunks, f.i, f.args.batch_size)
        r     == EmbedStage(generate_embeddings(batch, client,
                                                Provider(batch, behaviour)))
    IN  /\ f.pc = "embed"
        /\ f.i < Len(f.chunks)
        /\ ingest' = [ingest EXCEPT ![c] =
               IF r.raised THEN Ended(f, "raised", r)
               ELSE [f EXCEPT !.all_embeddings = @ \o r.value,
                              !.i = @ + f.args.batch_size,
                              !.sent = Append(@, batch),
                              !.answers =
                                  Append(@, Answer(client, behaviour))]]
        /\ UNCHANGED <<client, store, reader, embed, spy, chunker>>

\* generate_embeddings with an except clause that catches the cancellation:
\* the batch gets the zero fallback and ingest_pdf goes on
CancelledCaught(f) ==
    LET batch == Batch(f.chunks, f.i, f.args.batch_size)
    IN  [f EXCEPT !.all_embeddings = @ \o ZeroVectors(batch),
                  !.i = @ + f.args.batch_size,
                  !.sent = Append(@, batch),
                  !.answers = Append(@, "cancelled")]

\* asyncio.CancelledError thrown at `await _openai.embeddings.create(...)`:
\* a BaseException, it passes the `except Exception` of generate_embeddings
\* and that of the batch loop, and leaves ingest_pdf
Cancelled(f) ==
    Ended([f EXCEPT !.sent = Append(@, Batch(f.chunks, f.i, f.args.batch_size)),
                    !.answers = Append(@, "cancelled")],
          "raised", Raised(Exc("CancelledError", "", "")))

\* the caller abandons the call (a timeout, a cancelled task) while it is
\* suspended in a batch call, the one await of ingest_pdf (without a client
\* generate_embeddings returns before its await, and nothing suspends)
Cancel(c) ==
    LET f == ingest[c]
    IN  /\ f.pc = "embed"
        /\ f.i < Len(f.chunks)
        /\ client
        /\ ingest' = [ingest EXCEPT ![c] = Cancelled(f)]
        /\ UNCHANGED <<client, store, reader, embed, spy, chunker>>

\* ingest_pdf, step 3: build the records, db.add_all(records) and the flush
\* that db.commit() starts; `fault` is the number of rows after which the
\* connection fails (Len(records) + 1: it does not fail)
Persist(c, fault) ==
    LET f       == ingest[c]
        records == Records(c, f.fname, f.chunks, f.all_embeddings, f.total_pages)
        done    == Inserted(records, fault)
    IN  /\ f.pc = "embed"
        /\ f.i >= Len(f.chunks)
        /\ fault \in 0..(Len(records) + 1)
        /\ ingest' = [ingest EXCEPT ![c] =
               [f EXCEPT !.new = records,
                         !.flushed = SubSeq(records, 1, done),
                         !.inserted = done,
                         !.pc = IF done = Len(records) /\ fault > Len(records)
                                THEN "flushed" ELSE "failing"]]
        /\ store' = FlushRows(store, SubSeq(records, 1, done))
        /\ UNCHANGED <<client, reader, embed, spy, chunker>>

\* db.commit() succeeds: the summary is returned
Commit(c) ==
    LET f == ingest[c]
    IN  /\ f.pc = "flushed"
        /\ store' = CommitRows(store, f.flushed)
        /\ ingest' = [ingest EXCEPT ![c] =
               Ended(f, "returned",
                     Returned(Summary(f.fname, f.total_pages, f.chunks)))]
        /\ UNCHANGED <<client, reader, embed, spy, chunker>>

\* db.commit() raised: db.rollback() and the RuntimeError
Rollback(c) ==
    LET f == ingest[c]
    IN  /\ f.pc = "failing"
        /\ store' = RollbackRows(store, f.flushed)
        /\ ingest' = [ingest EXCEPT ![c] =
               Ended(f, "raised",
                     Raised(Exc("RuntimeError", "salvar chunks no banco",
                                "DBAPIError")))]
        /\ UNCHANGED <<client, reader, embed, spy, chunker>>

\* --------------------------------------------------------- cosine distance
RECURSIVE Dot(_, _)
\* the inner product of two vectors of the same length
Dot(a, b) ==
    IF a = <<>> \/ b = <<>> THEN 0
    ELSE LET n == Min(a[1].n, b[1].n)
             ra == IF a[1].n = n THEN Tail(a)
                   ELSE <<Run(a[1].c, a[1].n - n)>> \o Tail(a)
             rb == IF b[1].n = n THEN Tail(b)
                   ELSE <<Run(b[1].c, b[1].n - n)>> \o Tail(b)
         IN  a[1].c * b[1].c * n + Dot(ra, rb)

RECURSIVE Root(_, _, _)
\* the largest k of lo..hi with k * k <= n, by bisection
Root(n, lo, hi) ==
    IF lo = hi THEN lo
    ELSE LET mid == (lo + hi + 1) \div 2
         IN  IF mid * mid <= n THEN Root(n, mid, hi) ELSE Root(n, lo, mid - 1)

\* the square root of a square (the vectors of the model have whole norms)
Sqrt(n) == Root(n, 0, Min(n, 46340))

\* A distance 1 - cos, kept exact: cos = dot / (vnorm * qnorm); `error` when
\* the operator refuses the vectors, `nan` when a norm is zero (0 / 0).
Distance(error, nan, dot, vnorm, qnorm) ==
    [error |-> error, nan |-> nan, dot |-> dot, vnorm |-> vnorm, qnorm |-> qnorm]

\* a distance computed over the common prefix, whatever the lengths
CosineDistanceUnchecked(v, q) ==
    IF Dot(v, v) = 0 \/ Dot(q, q) = 0
    THEN Distance(FALSE, TRUE, 0, 1, 1)
    ELSE Distance(FALSE, FALSE, Dot(v, q), Sqrt(Dot(v, v)), Sqrt(Dot(q, q)))

\* an operator that refuses a vector without direction
CosineDistanceZeroRefused(v, q) ==
    IF Size(v) # Size(q) \/ Dot(v, v) = 0 \/ Dot(q, q) = 0
    THEN Distance(TRUE, FALSE, 0, 1, 1)
    ELSE Distance(FALSE, FALSE, Dot(v, q), Sqrt(Dot(v, v)), Sqrt(Dot(q, q)))

\* embedding.cosine_distance(query_embedding), the operator <=> of pgvector:
\* an error on vectors of different lengths, NaN when a norm is zero, else
\* 1 - cos
CosineDistance(v, q) ==
    IF Size(v) # Size(q) THEN Distance(TRUE, FALSE, 0, 1, 1)
    ELSE IF Dot(v, v) = 0 \/ Dot(q, q) = 0
    THEN Distance(FALSE, TRUE, 0, 1, 1)
    ELSE Distance(FALSE, FALSE, Dot(v, q), Sqrt(Dot(v, v)), Sqrt(Dot(q, q)))

\* distance x < distance y, of two distances to the same query vector
\* (NaN is greater than every number and equal to itself)
Less(x, y) ==
    ~x.nan /\ (y.nan \/ x.dot * y.vnorm > y.dot * x.vnorm)

\* ORDER BY distance: x may come before y
MayPrecede(x, y) == ~Less(y, x)

\* the distance given as the score: round(distance, 4), here rounded down
ScoreIsDistance(dist) ==
    [nan |-> dist.nan,
     v   |-> IF dist.nan THEN 0
             ELSE 10000 - (dist.dot * 10000) \div (dist.vnorm * dist.qnorm)]

\* round(1 - distance, 4), in units of 1/10000: the nearest whole number of
\* units, the even one of two that are equally near; NaN stays NaN
Score(dist) ==
    IF dist.nan THEN [nan |-> TRUE, v |-> 0]
    ELSE LET den   == dist.vnorm * dist.qnorm
             floor == (dist.dot * 10000) \div den
             rest  == dist.dot * 10000 - floor * den
         IN  [nan |-> FALSE,
              v   |-> IF 2 * rest > den THEN floor + 1
                      ELSE IF 2 * rest < den THEN floor
                      ELSE IF floor % 2 = 0 THEN floor ELSE floor + 1]

\* the query without its filter on the filename
EligibleUnfiltered(table, filename_filter) == table

\* the filter written with != for ==
EligibleOthers(table, filename_filter) ==
    SelectSeq(table, LAMBDA row :
        filename_filter = "" \/ row.filename # filename_filter)

\* the rows of the query of semantic_search before ORDER BY and LIMIT; the
\* filter is applied `if filename_filter`, "" and None being no filter
Eligible(table, filename_filter) ==
    SelectSeq(table, LAMBDA row :
        filename_filter = "" \/ row.filename = filename_filter)

\* LIMIT without ORDER BY: the first rows of the table
RankedUnordered(rows, dist, limit) ==
    {[k \in 1..Min(limit, Len(rows)) |-> k]}

\* the answers ORDER BY distance LIMIT limit may give over `rows`: the
\* selections of positions in ascending distance, rows at the same distance
\* in any order
Ranked(rows, dist, limit) ==
    LET m == Min(limit, Len(rows))
    IN  {sel \in [1..m -> 1..Len(rows)] :
            /\ \A j, k \in 1..m : j < k =>
                  sel[j] # sel[k] /\ MayPrecede(dist[sel[j]], dist[sel[k]])
            /\ \A j \in 1..m, r \in 1..Len(rows) :
                  (\A k \in 1..m : sel[k] # r) => MayPrecede(dist[sel[j]], dist[r])}

\* the dict semantic_search returns for a row
Hit(row, dist) ==
    [id |-> row.id, filename |-> row.filename, chunk_index |-> row.chunk_index,
     content |-> row.content, score |-> Score(dist),
     metadata |-> row.metadata_json]

\* the arguments of a semantic_search call, and the query vector it computed
Call(limit, filename_filter, vector, answer) ==
    [limit |-> limit, filename_filter |-> filename_filter, vector |-> vector,
     answer |-> answer]

NoCall == Call(0, "", <<>>, "")

\* the frame of a reading request.  `call` (the arguments of the search),
\* `seen` (the ids of the rows the last query read), `during` (where each
\* ingest_pdf call was when it read them), `qsize` (the length of the query
\* vector) and `compared` (the lengths of the two vectors of every distance
\* computed) and `failed` (whether a query of the request raised) are
\* history, kept for the properties.
Read(pc, call, seen, during, qsize, compared, total, failed, result) ==
    [pc |-> pc, call |-> call, seen |-> seen, during |-> during,
     qsize |-> qsize, compared |-> compared, total |-> total,
     failed |-> failed, result |-> result]

Positions == [c \in Calls |-> ingest[c].pc]

NoRead == Read("idle", NoCall, {}, [c \in Calls |-> "idle"], 0, {}, 0, FALSE, Returned(<<>>))

Ids(rows) == {rows[k].id : k \in 1..Len(rows)}

\* BrainService.semantic_search(query, db, limit, filename_filter).  A query
\* vector of another length than the column is refused when it is compared
\* with a row; `strict` tells whether the driver refuses it already when it
\* binds it, rows or no rows.
SemanticSearch(query, limit, filename_filter, behaviour, strict) ==
    LET vectors == generate_embeddings(<<query>>, client,
                                       Provider(<<query>>, behaviour)).value
        rows == Eligible(store, filename_filter)
        dist == [k \in 1..Len(rows) |->
                    CosineDistance(rows[k].embedding, vectors[1])]
        done == {<<Size(rows[k].embedding), Size(vectors[1])>> :
                    k \in {j \in 1..Len(rows) : ~dist[j].error}}
        call == Call(limit, filename_filter,
                     IF vectors = <<>> THEN <<>> ELSE vectors[1],
                     Answer(client, behaviour))
    IN  /\ reader.pc # "counting"
        /\ IF vectors = <<>>
           THEN reader' = Read("searched", call, {}, Positions, 0, {}, 0,
                               FALSE, Raised(Exc("IndexError", "", "")))
           ELSE IF \/ \E k \in 1..Len(rows) : dist[k].error
                   \/ strict /\ Size(vectors[1]) # Dim
           THEN reader' = Read("searched", call, Ids(rows), Positions,
                               Size(vectors[1]), done, 0,
                               TRUE, Raised(Exc("DataError", "", "")))
           ELSE \E sel \in Ranked(rows, dist, limit) :
                   reader' = Read("searched", call, Ids(rows), Positions,
                       Size(vectors[1]), done, 0,
                       FALSE, Returned([k \in 1..Len(sel) |->
                                    Hit(rows[sel[k]], dist[sel[k]])]))
        /\ UNCHANGED <<client, store, ingest, embed, spy, chunker>>

ZeroSummary == [total_chunks |-> 0, total_files |-> 0, files |-> <<>>]

\* count_chunks without its except clause: the error of the query leaves it
CountFailedUncaught(positions) ==
    Read("counted", NoCall, {}, positions, 0, {}, 0, TRUE,
         Raised(Exc("OperationalError", "", "")))

\* count_chunks, `except Exception`: whatever a query raised, the summary of
\* an empty store is returned
CountFailed(positions) ==
    Read("counted", NoCall, {}, positions, 0, {}, 0, TRUE, Returned(ZeroSummary))

\* count_chunks, first query: count(id); `ok` is whether the query succeeds
CountTotal(ok) ==
    /\ reader.pc # "counting"
    /\ reader' = IF ok THEN Read("counting", NoCall, Ids(store), Positions, 0, {},
                                 Len(store), FALSE, Returned(<<>>))
                 ELSE CountFailed(Positions)
    /\ UNCHANGED <<client, store, ingest, embed, spy, chunker>>

\* the rows GROUP BY filename gives, in any order
Groups(table) ==
    LET names == {table[k].filename : k \in 1..Len(table)}
        count(name) == Cardinality({k \in 1..Len(table) : table[k].filename = name})
        n == Cardinality(names)
    IN  {[k \in 1..n |-> [filename |-> order[k], chunks |-> count(order[k])]] :
            order \in {o \in [1..n -> names] : \A j, k \in 1..n : j # k => o[j] # o[k]}}

\* count_chunks, second query: the chunks of each file, and the summary
CountFiles(ok) ==
    /\ reader.pc = "counting"
    /\ IF ok
       THEN \E files \in Groups(store) :
               reader' = Read("counted", NoCall, Ids(store), Positions, 0, {},
                              reader.total, FALSE,
                              Returned([total_chunks |-> reader.total,
                                        total_files  |-> Len(files),
                                        files        |-> files]))
       ELSE reader' = CountFailed(Positions)
    /\ UNCHANGED <<client, store, ingest, embed, spy, chunker>>

\* ------------------------------------------------------------ SpyService
\* services.generate_embedding(text): the embedding of the first item of the
\* response; zeros when there is no client or anything raises (also the
\* IndexError of an empty response)
generate_embedding(text, has_client, response) ==
    IF ~has_client \/ response.raised THEN ZeroVector(Dim)
    ELSE IF response.value = <<>> THEN ZeroVector(Dim)
    ELSE response.value[1].embedding

\* the leads of the competitor analyses, numbered in the order in which they
\* are first analysed: the leads that have an analysis, and the next one
Leads == 1..Min(Cardinality({spy[k] : k \in 1..Len(spy)}) + 1, MaxIntel)

\* the letter the summary of each lead is written with
SpyLetters == <<"d", "e", "a", "b", "c">>

\* the summary analyze_competitor_presence writes about the lead
analysis_summary(lead) == Rep(SpyLetters[lead], 300)

\* the file names f"spy_intel/{lead.name}_{intel.id}" of the competitor
\* analyses, one for each CompetitorIntel id
SpyNames == <<"spy_intel/x_1", "spy_intel/x_2", "spy_intel/x_3", "spy_intel/x_4">>

\* the DocumentChunk _index_intel_rag builds for the analysis `n`
IntelChunk(n, lead, content, embedding) ==
    [id            |-> Uuid4(0, n),
     filename      |-> SpyNames[n],
     chunk_index   |-> 0,
     content       |-> content,
     embedding     |-> embedding,
     metadata_json |-> [source_type |-> "competitor_intel", lead_id |-> lead,
                        intel_id |-> n]]

\* SpyService.analyze_competitor_presence(db, lead, force_refresh): the
\* cached analysis when the lead has one and no refresh is asked; else a new
\* CompetitorIntel and its DocumentChunk, committed in one transaction.
\* `ok` is whether the flush and the COMMIT go through.
Analyze(lead, force_refresh, behaviour, ok) ==
    LET n     == Len(spy) + 1
        chunk == IntelChunk(n, lead, analysis_summary(lead),
                     generate_embedding(analysis_summary(lead), client,
                         Provider(<<analysis_summary(lead)>>, behaviour)))
    IN  /\ IF ~force_refresh /\ \E k \in 1..Len(spy) : spy[k] = lead
           THEN UNCHANGED <<store, spy>>
           ELSE /\ Len(spy) < MaxIntel
                /\ IF ok /\ RowAccepted(chunk)
                   THEN /\ store' = CommitRows(store, <<chunk>>)
                        /\ spy' = Append(spy, lead)
                   ELSE UNCHANGED <<store, spy>>
        /\ UNCHANGED <<client, ingest, reader, embed, chunker>>

\* --------------------------------------------- generate_embeddings, direct
\* the texts given to generate_embeddings: chunks of the documents
Texts == {Page(Letters[k]) : k \in 1..3}
TextLists == UNION {[1..n -> Texts] : n \in 1..MaxTexts}

NoEmbed == [pc |-> "idle", texts |-> <<>>, behaviour |-> "", result |-> Returned(<<>>)]

\* a call of generate_embeddings(texts) answered with `behaviour`
Embed(texts, behaviour) ==
    /\ embed' = [pc |-> "called", texts |-> texts, behaviour |-> behaviour,
                 result |-> generate_embeddings(texts, client,
                                                Provider(texts, behaviour))]
    /\ UNCHANGED <<client, store, ingest, reader, spy, chunker>>

\* ------------------------------------------------------------ HTTP router
\* POST /brain/ingest: the status of the response, from the outcome of the
\* ingest_pdf call it awaits
brain_ingest(outcome) ==
    IF ~outcome.raised THEN 200
    ELSE IF outcome.exc.type = "FileNotFoundError" THEN 404
    ELSE IF outcome.exc.type = "ValueError" THEN 422
    ELSE 500

\* POST /brain/upload of a file whose name ends in .pdf: the status of the
\* response, from the outcome of the ingest_pdf call it awaits
brain_upload(outcome) ==
    IF ~outcome.raised THEN 200
    ELSE IF outcome.exc.type = "ValueError" THEN 422
    ELSE 500

\* ------------------------------------------------------ split_text, direct
\* the lengths of the words of the texts given to the splitter: shorter than
\* chunk_overlap, and between chunk_overlap and chunk_size, chunk_size, longer
ShortWord == chunk_overlap - 50
LongWords == {400, chunk_size, chunk_size + 100}
\* what stands between two words ("": nothing), and around the text
Gaps == {Rep("\n", 2), Rep("\n", 1), Concat(Rep(".", 1), Rep(" ", 1)),
         Rep(" ", 1), Rep(" ", 0)}
Margins == {Rep(" ", 0), Rep(" ", 1)}

\* a text of n words of w letters with `gap` between them and `margin`
\* before the first and after the last
Words(w, n, gap, margin) ==
    Concat(Concat(margin, Join(gap, [k \in 1..n |-> Rep("a", w)])), margin)

\* up to MaxWords short words, or one or two long ones
SplitTexts ==
    {Words(ShortWord, n, gap, margin) :
        n \in 1..MaxWords, gap \in Gaps, margin \in Margins}
      \cup {Words(w, n, gap, margin) :
               w \in LongWords, n \in 1..2, gap \in Gaps, margin \in Margins}

NoSplit == [pc |-> "idle", text |-> <<>>, chunks |-> <<>>]

\* a call of _splitter.split_text(text)
Split(text) ==
    /\ chunker.pc = "idle"
    /\ chunker' = [pc |-> "split", text |-> text, chunks |-> split_text(text)]
    /\ UNCHANGED <<client, store, ingest, reader, embed, spy>>

\* ---------------------------------------------------------- specifications
Init ==
    /\ client \in BOOLEAN
    /\ store = <<>>
    /\ ingest = [c \in Calls |-> Idle]
    /\ reader = NoRead
    /\ embed = NoEmbed
    /\ spy = <<>>
    /\ chunker = NoSplit

\* the steps of the ingest_pdf calls of the set C
Ingestion(C) ==
    \/ \E c \in C, a \in IngestArgs : Begin(c, a)
    \/ \E c \in C, b \in Behaviours : EmbedBatch(c, b)
    \/ \E c \in C, k \in 0..(MaxPages + 2) : Persist(c, k)
    \/ \E c \in C : Commit(c)
    \/ \E c \in C : Rollback(c)

\* the semantic_search requests with a query of Q
Searching(Q, L, F) ==
    \E q \in Q, limit \in L, f \in F, b \in Behaviours, strict \in BOOLEAN :
        SemanticSearch(q, limit, f, b, strict)

\* the count_chunks requests
Counting ==
    \/ \E ok \in BOOLEAN : CountTotal(ok)
    \/ \E ok \in BOOLEAN : CountFiles(ok)

Queries == {Page("a")}

\* the steps of the reading requests
Reading == Searching(Queries, {MaxLimit}, {"", "a.pdf"}) \/ Counting

\* concurrent ingest_pdf calls
Next == Ingestion(Calls)
Spec == Init /\ [][Next]_vars

\* concurrent ingest_pdf calls that their callers may abandon
NextCancel == Ingestion(Calls) \/ \E c \in Calls : Cancel(c)
SpecCancel == Init /\ [][NextCancel]_vars

\* one ingest_pdf call and concurrent readers in other sessions
NextRead == Ingestion({1}) \/ Reading
SpecRead == Init /\ [][NextRead]_vars

\* the competitor analyses
Spying ==
    \E lead \in Leads, force_refresh \in BOOLEAN, b \in Behaviours,
       ok \in BOOLEAN : Analyze(lead, force_refresh, b, ok)

\* the competitor analyses and a search over their chunks, asked for up to
\* one result more than MaxLimit
NextSearch ==
    \/ Spying
    \/ /\ reader.pc = "idle"
       /\ Searching({analysis_summary(2)}, 0..(MaxLimit + 1),
                    {"", SpyNames[2]})
SpecSearch == Init /\ [][NextSearch]_vars

\* one ingest_pdf call and the competitor analyses, the two writers of the
\* table
NextIntel ==
    \/ Ingestion({1})
    \/ Len(spy) < MaxIntelIngesting /\ Spying
SpecIntel == Init /\ [][NextIntel]_vars

\* direct calls of generate_embeddings
NextEmbed == \E texts \in TextLists, b \in Behaviours : Embed(texts, b)
SpecEmbed == Init /\ [][NextEmbed]_vars

\* direct calls of _splitter.split_text
NextSplit == \E text \in SplitTexts : Split(text)
SpecSplit == Init /\ [][NextSplit]_vars

\* ------------------------------------------------------------- properties
\* the committed rows of call c
RowsOf(c) == SelectSeq(store, LAMBDA row : row.id[1] = c)

\* the chunks process_pdf gives call c
ChunksOf(c) == Processed[ingest[c].args].value.chunks

\* call c failed in its persist step
PersistFailed(c) ==
    /\ ingest[c].pc = "raised"
    /\ ingest[c].result.exc.stage = "salvar chunks no banco"

\* C1: when the persist step (add_all + commit) of an ingest_pdf call fails,
\* none of the chunks of that call is in the Chunk Store, neither while the
\* failure is handled nor after the call, whatever prefix of its rows was
\* INSERTed; and the call ends in an error, not in a summary.
C1_FailedPersistLeavesNothing ==
    \A c \in Calls :
        /\ ingest[c].pc = "failing" => RowsOf(c) = <<>>
        /\ PersistFailed(c) =>
              /\ RowsOf(c) = <<>>
              /\ ingest[c].result.raised

\* a call failed after a strict, non-empty prefix of its rows was INSERTed
C1_Witness ==
    \E c \in Calls :
        /\ PersistFailed(c)
        /\ ingest[c].inserted > 0
        /\ ingest[c].inserted < Len(ChunksOf(c))

\* the records call c persists: those of its open transaction, or its
\* committed rows
PersistedBy(c) ==
    IF ingest[c].pc \in {"flushed", "failing"} THEN Ids(ingest[c].new)
    ELSE Ids(RowsOf(c))

\* C2: whatever a reader (semantic_search, count_chunks) reads while ingest_pdf
\* calls run, it reads of each call either all the rows the call persists or
\* none of them, never a strict non-empty subset.
C2_ReadersSeeAllOrNothing ==
    \A c \in Calls :
        LET mine == {id \in reader.seen : id[1] = c}
        IN  mine = {} \/ mine = PersistedBy(c)

\* a search ran while a strict non-empty prefix of the rows of a call was
\* INSERTed and not committed
C2_Witness ==
    /\ reader.pc = "searched"
    /\ reader.during[1] = "failing"
    /\ ingest[1].inserted > 0
    /\ ingest[1].inserted < Len(ChunksOf(1))
    /\ reader.seen = {}

\* C3: no two chunks of the Chunk Store share the pair (filename,
\* chunk_index), after any sequence of successful ingest_pdf calls.
C3_FilenameIndexUnique ==
    \A j, k \in 1..Len(store) :
        j # k => \/ store[j].filename # store[k].filename
                 \/ store[j].chunk_index # store[k].chunk_index

\* C4: ingestion is append-only: every step leaves each stored chunk as it
\* was, in its place, and the chunks it adds have ids no stored chunk has.
C4_AppendOnly ==
    [][/\ Len(store') >= Len(store)
       /\ SubSeq(store', 1, Len(store)) = store
       /\ \A k \in (Len(store) + 1)..Len(store') :
             /\ store'[k].id \notin Ids(store)
             /\ \A j \in (Len(store) + 1)..Len(store') :
                   j # k => store'[j].id # store'[k].id]_vars

\* two calls ingested the same file name and both sets of chunks are stored
C4_Witness ==
    /\ ingest[1].pc = "returned"
    /\ ingest[2].pc = "returned"
    /\ ingest[1].fname = ingest[2].fname
    /\ RowsOf(1) # <<>>
    /\ RowsOf(2) # <<>>
    /\ Len(store) = Len(RowsOf(1)) + Len(RowsOf(2))

\* C5: without an API key, or when the provider raises, generate_embeddings
\* raises nothing and returns one all-zero vector of length 1536 for each
\* input text.
C5_FallbackIsZeroVectors ==
    (embed.pc = "called" /\ (~client \/ embed.behaviour = "raise")) =>
        /\ ~embed.result.raised
        /\ embed.result.value =
              [k \in 1..Len(embed.texts) |-> <<[c |-> 0, n |-> 1536]>>]

\* the provider raised on a list of several texts
C5_Witness ==
    /\ embed.pc = "called"
    /\ client
    /\ embed.behaviour = "raise"
    /\ Len(embed.texts) > 1

\* C6: every vector generate_embeddings returns has length 1536, whatever
\* the provider returns.
C6_EveryVectorHasLength1536 ==
    embed.pc = "called" =>
        \A k \in 1..Len(embed.result.value) :
            Size(embed.result.value[k]) = 1536

\* C7: every stored chunk's vector has length 1536; semantic_search computes
\* no distance between vectors of different lengths, and a query vector of
\* another length is rejected with an error when there are rows to compare.
C7_NoDistanceAcrossLengths ==
    /\ \A k \in 1..Len(store) : Size(store[k].embedding) = 1536
    /\ \A pair \in reader.compared : pair[1] = pair[2]
    /\ (reader.pc = "searched" /\ reader.seen # {} /\ reader.qsize # 1536) =>
          reader.result.raised

\* a search with a query vector of length 3 met stored rows and was rejected
C7_Witness ==
    /\ reader.pc = "searched"
    /\ reader.qsize = 3
    /\ reader.seen # {}
    /\ reader.result.raised

BatchOf(c, k) == (k - 1) \div ingest[c].args.batch_size + 1

\* the number of batches of call c
BatchesOf(c) ==
    (Len(ChunksOf(c)) + ingest[c].args.batch_size - 1)
        \div ingest[c].args.batch_size

\* the provider failed or answered completely on every batch of call c
NothingMalformed(c) ==
    \A b \in 1..Len(ingest[c].answers) : ingest[c].answers[b] # "malformed"

\* the vector call c is to store for its chunk at position k
ExpectedVector(c, k) ==
    IF ingest[c].answers[BatchOf(c, k)] = "fallback"
    THEN <<[c |-> 0, n |-> 1536]>>
    ELSE ModelVector(ChunksOf(c)[k], 1536)

ExtractionFailed(c) ==
    /\ ingest[c].pc # "idle"
    /\ Processed[ingest[c].args].raised

\* C10 as stated: whenever extraction fails, for a path that does not exist as
\* for a source that cannot be parsed or has no text, the caller gets the
\* wrapped error that names the failing stage.
C10_EveryExtractionFailureWrapped ==
    \A c \in Calls :
        ExtractionFailed(c) =>
            /\ ingest[c].pc = "raised"
            /\ ingest[c].result.exc.type = "RuntimeError"
            /\ ingest[c].result.exc.stage = "ler/processar o PDF"

\* C10 amended: a source that cannot be parsed or has no text reaches the
\* caller as the RuntimeError that names the stage and wraps the cause; a
\* path that does not exist reaches it as the FileNotFoundError itself.
C10_ExtractionFailureSurfaced ==
    \A c \in Calls :
        ExtractionFailed(c) =>
            LET cause == Processed[ingest[c].args].exc
            IN  /\ ingest[c].pc = "raised"
                /\ ingest[c].result.raised
                /\ IF ~ingest[c].args.source.exists
                   THEN ingest[c].result.exc = Exc("FileNotFoundError", "", "")
                   ELSE ingest[c].result.exc =
                            Exc("RuntimeError", "ler/processar o PDF", cause.type)

\* one call failed on a document without text, another on a missing path
C10_Witness ==
    \E c, d \in Calls :
        /\ ExtractionFailed(c)
        /\ ingest[c].args.source = Scanned
        /\ ExtractionFailed(d)
        /\ ingest[d].args.source = Missing

\* every page of the source yields no text or blanks only
NoTextLayer(source) ==
    /\ source.exists
    /\ source.valid
    /\ \A k \in 1..Len(source.pages) : Strip(source.pages[k]) = <<>>

\* C11: a document whose pages all yield empty or whitespace-only text makes
\* extraction fail: process_pdf returns no result with blank text, and an
\* ingest_pdf call on such a document ends in an error, never in a summary,
\* and stores nothing.
C11_NoTextIsAnError ==
    /\ \A a \in IngestArgs :
          /\ NoTextLayer(a.source) => Processed[a].raised
          /\ ~Processed[a].raised => Strip(Processed[a].value.full_text) # <<>>
    /\ \A c \in Calls :
          (ingest[c].pc # "idle" /\ NoTextLayer(ingest[c].args.source)) =>
              /\ ingest[c].pc = "raised"
              /\ ingest[c].result.raised
              /\ RowsOf(c) = <<>>

\* a call was made on the scanned document, one page of which is blanks
C11_Witness ==
    \E c \in Calls :
        /\ ingest[c].pc = "raised"
        /\ NoTextLayer(ingest[c].args.source)
        /\ \E k \in 1..Len(ingest[c].args.source.pages) :
               ingest[c].args.source.pages[k] # <<>>

\* C12: ingest_pdf never reports an ingestion of nothing as a success: a call
\* that returns a summary has total_chunks > 0 and has committed a batch that
\* is not empty; an empty list at the persist step ends the call in an error.
C12_NoEmptyIngestion ==
    \A c \in Calls :
        ingest[c].pc = "returned" =>
            /\ ingest[c].result.value.status = "success"
            /\ ingest[c].result.value.total_chunks > 0
            /\ RowsOf(c) # <<>>

\* the stored rows the last search read, in the order of the table
SearchedRows == SelectSeq(store, LAMBDA row : row.id \in reader.seen)

\* the distance of a stored row to the query vector of the last search
DistanceOf(row) == CosineDistance(row.embedding, reader.call.vector)

\* row x is strictly nearer to the query than row y
StrictlyNearer(x, y) == Less(DistanceOf(x), DistanceOf(y))

\* the ids of the hits of the last search, in the order returned
HitIds == [k \in 1..Len(reader.result.value) |-> reader.result.value[k].id]

\* the last request was a semantic_search that returned a list
SearchReturned == reader.pc = "searched" /\ ~reader.result.raised

\* C13: semantic_search returns at most `limit` results: min(limit, number of
\* eligible chunks) different chunks, the eligible chunks being the chunks of
\* the store (of the filtered filename, when a filter is given) at the time
\* of the query; and no eligible chunk left out is strictly nearer to the
\* query vector than a returned one.
C13_NearestWithinLimit ==
    SearchReturned =>
        LET f == reader.call.filename_filter
        IN  /\ Len(HitIds) <= reader.call.limit
            /\ Len(HitIds) = Min(reader.call.limit, Cardinality(reader.seen))
            /\ \A j, k \in 1..Len(HitIds) : j # k => HitIds[j] # HitIds[k]
            /\ \A k \in 1..Len(HitIds) : HitIds[k] \in reader.seen
            /\ \E p \in 0..Len(store) :
                  reader.seen = Ids(Eligible(SubSeq(store, 1, p), f))
            /\ \A j \in 1..Len(SearchedRows), k \in 1..Len(SearchedRows) :
                  LET out == SearchedRows[j]
                      got == SearchedRows[k]
                  IN  ((\A h \in 1..Len(HitIds) : HitIds[h] # out.id)
                          /\ (\E h \in 1..Len(HitIds) : HitIds[h] = got.id))
                          => ~StrictlyNearer(out, got)

\* a search left out an eligible chunk that is strictly farther than the
\* chunk it returned, the first row of the table not being the nearest
C13_Witness ==
    /\ SearchReturned
    /\ Len(HitIds) = 1
    /\ Len(SearchedRows) = 3
    /\ HitIds[1] # SearchedRows[1].id
    /\ \E k \in 1..3 : \E j \in 1..3 :
          /\ SearchedRows[k].id = HitIds[1]
          /\ StrictlyNearer(SearchedRows[k], SearchedRows[j])

RowOfHit(k) == CHOOSE row \in {store[j] : j \in 1..Len(store)} : row.id = HitIds[k]

\* the distances of hits j and k are numbers, that of j the smaller
Increasing(j, k) ==
    /\ ~DistanceOf(RowOfHit(k)).nan
    /\ Less(DistanceOf(RowOfHit(j)), DistanceOf(RowOfHit(k)))

\* distance(k) - distance(j) > 0.0001, for hits at numeric distances
FarApart(j, k) ==
    LET x == DistanceOf(RowOfHit(j))
        y == DistanceOf(RowOfHit(k))
    IN  /\ ~x.nan
        /\ ~y.nan
        /\ x.dot * y.vnorm - y.dot * x.vnorm
              > (x.vnorm * y.vnorm * x.qnorm) \div 10000

\* C15 as stated: the hits come by ascending distance, and hits at strictly
\* increasing distances have strictly decreasing scores.
C15_StrictlyDescendingScores ==
    SearchReturned =>
        \A j, k \in 1..Len(HitIds) :
            j < k =>
                /\ ~StrictlyNearer(RowOfHit(k), RowOfHit(j))
                /\ Increasing(j, k) =>
                      reader.result.value[j].score.v > reader.result.value[k].score.v

\* C15 amended: the hits come by ascending distance; the score of a hit is
\* 1 - distance rounded to four decimals; hits at strictly increasing
\* distances have scores that do not increase, and that strictly decrease
\* when the distances differ by more than 0.0001.
C15_DescendingRoundedScores ==
    SearchReturned =>
        /\ \A k \in 1..Len(HitIds) :
              reader.result.value[k].score = Score(DistanceOf(RowOfHit(k)))
        /\ \A j, k \in 1..Len(HitIds) :
              j < k =>
                  /\ ~StrictlyNearer(RowOfHit(k), RowOfHit(j))
                  /\ Increasing(j, k) =>
                        reader.result.value[j].score.v >= reader.result.value[k].score.v
                  /\ FarApart(j, k) =>
                        reader.result.value[j].score.v > reader.result.value[k].score.v

\* a search over three chunks at strictly increasing distances returned
\* [B, A, C], B being the second row of the table and A the first; the
\* scores of B and A round to the same number, that of C is smaller
C15_Witness ==
    /\ SearchReturned
    /\ Len(HitIds) = 3
    /\ Len(store) >= 3
    /\ HitIds[1] = store[2].id
    /\ HitIds[2] = store[1].id
    /\ HitIds[3] = store[3].id
    /\ Increasing(1, 2)
    /\ Increasing(2, 3)
    /\ reader.result.value[1].score.v = reader.result.value[2].score.v
    /\ reader.result.value[2].score.v > reader.result.value[3].score.v

\* no chunk of the store is eligible for the last search: the store is empty,
\* or the filter names a file that has no chunk
NoChunkMatches ==
    \A k \in 1..Len(store) :
        /\ reader.call.filename_filter # ""
        /\ store[k].filename # reader.call.filename_filter

C17_DegradedQueryStillAnswers ==
    (reader.pc = "searched" /\ reader.call.answer = "fallback") =>
        /\ ~reader.result.raised
        /\ reader.call.vector = ZeroVector(Dim)
        /\ Len(reader.result.value) =
              Min(reader.call.limit, Cardinality(reader.seen))
        /\ \A k \in 1..Len(reader.result.value) :
              /\ reader.result.value[k].id \in reader.seen
              /\ DOMAIN reader.result.value[k] =
                    {"id", "filename", "chunk_index", "content", "score",
                     "metadata"}

\* the provider raised on the query, and the search returned two stored
\* chunks all the same
C17_Witness ==
    /\ reader.pc = "searched"
    /\ client
    /\ reader.call.answer = "fallback"
    /\ ~reader.result.raised
    /\ Len(reader.result.value) = 2
    /\ Cardinality(reader.seen) >= 2

\* C18 as stated: every chunk of the store was inserted by an ingest_pdf
\* call, which has returned its summary; nothing else inserts a chunk.
C18_OnlyIngestInserts ==
    \A k \in 1..Len(store) :
        /\ store[k].id[1] \in Calls
        /\ ingest[store[k].id[1]].pc = "returned"

\* C18 amended: the table grows only by the commit of an ingest_pdf call,
\* which adds the whole batch of records of its document at once, or by the
\* commit of a competitor analysis, which adds the one chunk of that
\* analysis; no other step inserts a chunk.
C18_InsertedByIngestOrSpy ==
    [][store' # store =>
          \/ \E c \in Calls :
                /\ ingest[c].pc = "flushed"
                /\ ingest'[c].pc = "returned"
                /\ store' = store \o ingest[c].new
                /\ \A k \in 1..Len(ingest[c].new) :
                      /\ ingest[c].new[k].id[1] = c
                      /\ ingest[c].new[k].filename = ingest[c].fname
                /\ spy' = spy
          \/ /\ Len(spy') = Len(spy) + 1
             /\ Len(store') = Len(store) + 1
             /\ SubSeq(store', 1, Len(store)) = store
             /\ store'[Len(store')].id = <<0, Len(spy')>>
             /\ store'[Len(store')].metadata_json.source_type = "competitor_intel"
             /\ ingest' = ingest]_vars

\* the store holds the chunk of a competitor analysis and, after it, the two
\* chunks of a document
C18_Witness ==
    /\ Len(store) = 3
    /\ store[1].id[1] = 0
    /\ store[2].id[1] = 1
    /\ store[3].id[1] = 1
    /\ ingest[1].pc = "returned"

\* C19: when a query inside count_chunks fails, count_chunks returns the
\* zero-value summary {total_chunks: 0, total_files: 0, files: []} and
\* propagates no error, whatever the Chunk Store holds.
C19_FailedCountIsZeroSummary ==
    reader.pc = "counted" /\ reader.failed =>
        /\ ~reader.result.raised
        /\ reader.result.value = ZeroSummary

\* a count whose query failed over a store that holds chunks
C19_Witness ==
    /\ reader.pc = "counted"
    /\ reader.failed
    /\ store # <<>>
    /\ reader.result.value = ZeroSummary

\* the ingest_pdf call c was abandoned while suspended in a batch call
Abandoned(c) ==
    \E k \in 1..Len(ingest[c].answers) : ingest[c].answers[k] = "cancelled"

\* the rows of the Chunk Store that the ingest_pdf call c built
RowsOfCall(c) == {k \in 1..Len(store) : store[k].id = Uuid4(c, store[k].chunk_index)}

\* C20: an ingest_pdf call abandoned at a suspend point before the persist
\* step has no database-visible effect: it has ended, and the Chunk Store
\* holds no row of that call, then and ever after.
C20_AbandonedCallLeavesNoRow ==
    \A c \in Calls : Abandoned(c) =>
        /\ ingest[c].pc = "raised"
        /\ ingest[c].result.exc.type = "CancelledError"
        /\ ingest[c].inserted = 0
        /\ RowsOfCall(c) = {}

\* a call abandoned in its second batch, after a first batch was embedded,
\* beside a call that committed its rows
C20_Witness ==
    \E c, d \in Calls :
        /\ Abandoned(c)
        /\ Len(ingest[c].answers) > 1
        /\ ingest[d].pc = "returned"
        /\ RowsOfCall(d) # {}
        /\ RowsOfCall(c) = {}

\* C21: every chunk the splitter produces has at most chunk_size = 1000
\* characters.  (The last separator is "", so no token is atomic: a word
\* longer than the budget is cut into characters and merged again, and the
\* oversized chunk of the exception never arises.)
C21_ChunkSizeBound ==
    chunker.pc = "split" =>
        \A k \in 1..Len(chunker.chunks) : Size(chunker.chunks[k]) <= chunk_size

\* a text with a word longer than chunk_size was split, and a chunk of
\* exactly chunk_size characters was cut out of that word
C21_Witness ==
    /\ chunker.pc = "split"
    /\ \E r \in 1..Len(chunker.text) :
          chunker.text[r].c = "a" /\ chunker.text[r].n > chunk_size
    /\ \E k \in 1..Len(chunker.chunks) : Size(chunker.chunks[k]) = chunk_size

RECURSIVE Slice(_, _, _)
\* s[from-1 : to], the characters from..to of s
Slice(s, from, to) ==
    IF s = <<>> \/ to < from \/ to < 1 THEN <<>>
    ELSE LET n == s[1].n
         IN  IF from > n THEN Slice(Tail(s), from - n, to - n)
             ELSE LET first == IF from < 1 THEN 1 ELSE from
                      last  == IF to < n THEN to ELSE n
                  IN  <<Run(s[1].c, last - first + 1)>>
                         \o Slice(Tail(s), 1, to - n)

RECURSIVE Leading(_)
\* the number of whitespace characters s begins with
Leading(s) ==
    IF s = <<>> \/ s[1].c \notin Whitespace THEN 0
    ELSE s[1].n + Leading(Tail(s))

\* the chunk stands in the text at position p
ChunkAt(text, chunk, p) ==
    p >= 1 /\ Slice(text, p, p + Size(chunk) - 1) = chunk

RECURSIVE Starts(_, _, _, _)
\* the positions where chunk k can stand in the text when the chunks before
\* it stand in order, each beginning no earlier than the one before, ending
\* no earlier, and overlapping it by at most chunk_overlap characters;
\* between two chunks that do not overlap, and before the first, nothing is
\* left out (`gaps` FALSE) or whitespace only (`gaps` TRUE)
Starts(text, chunks, k, gaps) ==
    IF k = 1
    THEN {p \in 1..(1 + IF gaps THEN Leading(text) ELSE 0) :
             ChunkAt(text, chunks[1], p)}
    ELSE LET prev == Starts(text, chunks, k - 1, gaps)
             len0 == Size(chunks[k - 1])
             len  == Size(chunks[k])
             skip(q) == IF gaps
                        THEN Leading(Slice(text, q + len0, Size(text)))
                        ELSE 0
             from(q) == IF len0 > chunk_overlap THEN q + len0 - chunk_overlap
                        ELSE q
         IN  UNION {{p \in from(q)..(q + len0 + skip(q)) :
                        /\ p + len >= q + len0
                        /\ ChunkAt(text, chunks[k], p)} : q \in prev}

\* the chunks, in order and with their overlaps removed, give the text back
Reconstructs(text, chunks, gaps) ==
    IF chunks = <<>> THEN (IF gaps THEN Strip(text) ELSE text) = <<>>
    ELSE \E p \in Starts(text, chunks, Len(chunks), gaps) :
            LET end == p + Size(chunks[Len(chunks)]) - 1
            IN  IF gaps
                THEN Leading(Slice(text, end + 1, Size(text))) = Size(text) - end
                ELSE end = Size(text)

\* C22, as stated: concatenating the chunks in order with the overlap
\* regions removed reconstructs the text exactly, no character dropped and
\* none duplicated outside the overlaps.
C22_ExactReconstruction ==
    chunker.pc = "split" => Reconstructs(chunker.text, chunker.chunks, FALSE)

\* C22, amended: every chunk is a piece of the text that begins and ends
\* with a character that is not whitespace; the chunks stand in the text in
\* order, two neighbours overlap by at most chunk_overlap characters, and
\* the characters of the text that are in no chunk are whitespace at the
\* ends of the chunks.
C22_ReconstructionUpToWhitespace ==
    chunker.pc = "split" =>
        /\ \A k \in 1..Len(chunker.chunks) :
              chunker.chunks[k] # <<>> /\ Strip(chunker.chunks[k]) = chunker.chunks[k]
        /\ Reconstructs(chunker.text, chunker.chunks, TRUE)

\* a text split into overlapping chunks with whitespace lost between two
\* chunks or at the ends of the text
C22_Witness ==
    /\ chunker.pc = "split"
    /\ Len(chunker.chunks) > 1
    /\ ~Reconstructs(chunker.text, chunker.chunks, FALSE)
    /\ Reconstructs(chunker.text, chunker.chunks, TRUE)
    /\ Size(Join(Rep("a", 0), chunker.chunks)) > Size(chunker.text)

\* the vectors generate_embeddings can give for a text when it answers for
\* that text: the zero fallback, or the vector of the provider
VectorsFor(text) ==
    {ZeroVector(Dim)} \cup {ModelVector(text, n) : n \in {3, Dim}}

\* C23: in an ingest_pdf call with n chunks and batch size b the batches are
\* sent one after the other in chunk order, each of at most b texts; they
\* partition the chunk list, ceil(n/b) of them when the loop is over, and
\* the concatenated results are aligned, position by position, with the
\* chunks sent.
C23_BatchingDiscipline ==
    \A c \in Calls : ingest[c].pc = "embed" =>
        LET f    == ingest[c]
            b    == f.args.batch_size
            done == Min(f.i, Len(f.chunks))
        IN  /\ Len(f.sent) = (done + b - 1) \div b
            /\ \A j \in 1..Len(f.sent) : Len(f.sent[j]) \in 1..b
            /\ Flatten(f.sent) = SubSeq(f.chunks, 1, done)
            /\ Len(f.all_embeddings) = done
            /\ \A k \in 1..Min(done, Len(f.all_embeddings)) :
                  f.all_embeddings[k] \in VectorsFor(f.chunks[k])

\* C24: the records a successful ingest_pdf call over n chunks persisted have
\* the chunk_index values 0..n-1, and the record with chunk_index i holds the
\* i-th chunk with the vector computed for that text and the metadata
\* total_pages, total_chunks = n and chunk_size = the length of the text.
C24_RecordsMatchChunks ==
    \A c \in Calls : ingest[c].pc = "returned" =>
        LET rows   == RowsOf(c)
            chunks == ChunksOf(c)
        IN  /\ Len(rows) = Len(chunks)
            /\ \A k \in 1..Min(Len(rows), Len(chunks)) :
                  /\ rows[k].chunk_index = k - 1
                  /\ rows[k].content = chunks[k]
                  /\ rows[k].embedding \in VectorsFor(chunks[k])
                  /\ rows[k].metadata_json =
                        [total_pages  |-> ingest[c].total_pages,
                         total_chunks |-> Len(chunks),
                         chunk_size   |-> Size(chunks[k])]

\* C25: for every ingest_pdf call that returned a summary, the number of
\* chunk records the call committed equals the total_chunks of the summary
\* and the total_chunks in the metadata of each of its records, also when
\* the provider returns fewer vectors than the texts it was given.
C25_SummaryCountsCommittedRecords ==
    \A c \in Calls : ingest[c].pc = "returned" =>
        /\ Len(RowsOf(c)) = ingest[c].result.value.total_chunks
        /\ \A k \in 1..Len(RowsOf(c)) :
              RowsOf(c)[k].metadata_json.total_chunks = Len(RowsOf(c))

\* C26: a failure in extraction or chunking aborts ingest_pdf at once: the
\* call has ended with the error, no embedding call was or is ever issued,
\* no record was added, flushed, committed or rolled back, and the Chunk
\* Store holds no row of the call.
C26_ExtractionFailureAborts ==
    \A c \in Calls :
        ExtractionFailed(c) =>
            /\ ingest[c].pc = "raised"
            /\ ingest[c].sent = <<>>
            /\ ingest[c].answers = <<>>
            /\ ingest[c].new = <<>>
            /\ ingest[c].flushed = <<>>
            /\ ingest[c].inserted = 0
            /\ RowsOf(c) = <<>>

\* a call failed on bytes that are no PDF beside a call that went through
\* its batches and committed its rows
C26_Witness ==
    \E c, d \in Calls :
        /\ ExtractionFailed(c)
        /\ ingest[c].args.source = Corrupt
        /\ ingest[d].pc = "returned"
        /\ ingest[d].sent # <<>>
        /\ RowsOf(d) # <<>>

\* the position in the table, that is the insertion order, of the row `id`
PositionOf(id) == CHOOSE p \in 1..Len(store) : store[p].id = id

\* hits j and k of the last search are at the same distance from the query
SameDistance(j, k) ==
    /\ MayPrecede(DistanceOf(RowOfHit(j)), DistanceOf(RowOfHit(k)))
    /\ MayPrecede(DistanceOf(RowOfHit(k)), DistanceOf(RowOfHit(j)))

\* C27: eligible chunks at the same distance from the query are returned by
\* semantic_search in insertion order.
C27_TiesInInsertionOrder ==
    SearchReturned =>
        \A j, k \in 1..Len(HitIds) :
            (j < k /\ SameDistance(j, k)) =>
                PositionOf(HitIds[j]) < PositionOf(HitIds[k])

RECURSIVE SumChunks(_)
\* the sum of the per-file chunk counts of a summary's file list
SumChunks(files) ==
    IF files = <<>> THEN 0 ELSE files[1].chunks + SumChunks(Tail(files))

\* C28: every summary count_chunks returns is consistent, also when a commit
\* of ingest_pdf lands between its two queries: total_chunks is the sum of
\* the per-file chunk counts, total_files the number of filenames listed,
\* and each filename is listed once.
C28_SummaryConsistent ==
    (reader.pc = "counted" /\ ~reader.result.raised) =>
        LET summary == reader.result.value
            files   == summary.files
        IN  /\ summary.total_chunks = SumChunks(files)
            /\ summary.total_files = Len(files)
            /\ \A j, k \in 1..Len(files) :
                  j # k => files[j].filename # files[k].filename

\* the vectors a generate_embeddings call returned for the batch `texts`,
\* from how it came to its answer: a zero vector for each text, the vector
\* of each text, or (a list that is one item short) of each but the last
AnswerVectors(texts, answer) ==
    IF answer = "fallback" THEN ZeroVectors(texts)
    ELSE [k \in 1..(IF answer = "genuine" THEN Len(texts) ELSE Len(texts) - 1) |->
             ModelVector(texts[k], Dim)]

\* the records call c builds when it runs alone with the provider answering
\* its batches as it did: from its own chunks and its own batches only
AloneRecords(c) ==
    LET f == ingest[c]
        all_embeddings ==
            Flatten([j \in 1..Len(f.sent) |-> AnswerVectors(f.sent[j], f.answers[j])])
    IN  Records(c, f.fname, ChunksOf(c), all_embeddings, f.total_pages)

\* C29: concurrent ingest_pdf calls do not corrupt one another: however two
\* calls interleave, the rows a call committed are the records it builds
\* when run alone (texts, indices, vectors, metadata), a call that has not
\* committed has no row, and the store holds the rows of both and no other.
C29_ConcurrentCallsIndependent ==
    /\ \A c \in Calls :
          IF ingest[c].pc = "returned"
          THEN RowsOf(c) = AloneRecords(c)
          ELSE RowsOf(c) = <<>>
    /\ \A k \in 1..Len(store) : store[k].id[1] \in Calls
    /\ \A j, k \in 1..Len(store) : j # k => store[j].id # store[k].id

\* two calls on the same document have both committed all their chunks, the
\* second call first, each after more than one batch
C29_Witness ==
    /\ \A c \in Calls :
          /\ ingest[c].pc = "returned"
          /\ Len(ingest[c].sent) > 1
          /\ Len(RowsOf(c)) = Len(ChunksOf(c))
    /\ store = RowsOf(2) \o RowsOf(1)
    /\ ingest[1].fname = ingest[2].fname

\* the ingest_pdf call c has ended
Finished(c) == ingest[c].pc \in {"returned", "raised"}

\* the status with which the endpoint that made call c answers: /brain/ingest
\* for a server path, /brain/upload for uploaded bytes
StatusOf(c) ==
    IF ingest[c].args.source.kind = "path" THEN brain_ingest(ingest[c].result)
    ELSE brain_upload(ingest[c].result)

\* C30: /brain/ingest and /brain/upload answer 422 when the PDF yields no
\* extractable text (the ValueError of process_pdf), 404 when the server
\* path does not exist, and 500 only for other failures.
C30_StatusNamesTheFailure ==
    \A c \in Calls : Finished(c) =>
        LET p == Processed[ingest[c].args]
        IN  /\ (p.raised /\ p.exc.type = "ValueError") => StatusOf(c) = 422
            /\ (p.raised /\ p.exc.type = "FileNotFoundError") => StatusOf(c) = 404
            /\ StatusOf(c) = 500 =>
                  /\ ingest[c].result.raised
                  /\ ~(p.raised /\ p.exc.type \in {"ValueError", "FileNotFoundError"})

====
